---- MODULE Spec2Model ----
(***************************************************************************)
(* Wallet-Service-API: the ledger (users, wallets, transactions) and the   *)
(* request handlers of app/routes, run by a pool of workers over one       *)
(* shared store.  Every handler owns a SQLAlchemy session: a query reads   *)
(* the committed rows at the moment it runs, attribute assignments stay in *)
(* the session, and commit() writes the assigned values (absolute values,  *)
(* UPDATE .. SET col = value WHERE id = ..) in one database transaction.   *)
(* A handler is therefore one action per database round trip.              *)
(*                                                                         *)
(* Money columns are Float (app/models.py).  A stored value v is           *)
(* represented by the integer v * KoboPerNaira, which is exact for every   *)
(* value the handlers compute: the only non-integer operation is the       *)
(* division by 100 in the webhook.                                         *)
(***************************************************************************)
EXTENDS Integers, Sequences, FiniteSets, TLC

VARIABLES users, wallets, transactions, api_keys, now, pc, sess

vars == <<users, wallets, transactions, api_keys, now, pc, sess>>

\* What the ledger handlers never write: the users, their API keys, the clock.
identity == <<users, api_keys, now>>

(***************************************************************************)
(* Bounds of the model.                                                    *)
(***************************************************************************)
NDepRefs == 1
NTrfRefs == 2
MaxAmount == 1
\* The gateway reports further successful payments only while the wallets hold
\* less than MaxMoney units in total.
MaxMoney == 1
\* The api_keys table holds at most MaxKeys rows.
MaxKeys == 8
\* The clock (hours) runs from 0 to MaxNow.
MaxNow == 2

\* The input sets of the model.
Emails == {"a@x.io", "b@x.io"}
WalletNumbers == {"0000000001", "0000000002", "0000000003"}
Procs == {1, 2}
Amounts == 1..MaxAmount

(***************************************************************************)
(* Program constants.                                                      *)
(***************************************************************************)
KoboPerNaira == 100

PENDING == "pending"
SUCCESS == "success"
FAILED == "failed"
DEPOSIT == "deposit"
TRANSFER == "transfer"

NoRef == <<"none", 0>>
NoWallet == "none"

\* f"DEP_{uuid.uuid4().hex[:12].upper()}": a random value of a finite space.
DepRefs == {<<"DEP", n>> : n \in 1..NDepRefs}
\* f"TRF_{uuid.uuid4().hex[:12].upper()}"
TrfRefs == {<<"TRF", n>> : n \in 1..NTrfRefs}
References == DepRefs \cup TrfRefs

\* The amounts (kobo) the gateway reports in data.amount of a webhook.
PaystackAmounts == {100, 150}

(***************************************************************************)
(* Arithmetic of the handlers on the represented Float values.             *)
(***************************************************************************)
\* A Python int stored in a Float column.
FloatOfInt(n) == n * KoboPerNaira

\* amount=int(request.amount * 100): the kobo the gateway is asked to charge.
PaystackCharge(amount) == amount * 100

\* The payload's amount credited as it comes, without the division.
WebhookAmountUndivided(raw) == FloatOfInt(raw)

\* event_data.get("amount", 0) / 100 (true division).
WebhookAmount(raw) == (FloatOfInt(raw)) \div KoboPerNaira

\* The amounts requests carry: the valid ones, zero and a negative one.
RequestAmounts == -1..MaxAmount

\* amount: int = Field(..., gt=0) of DepositRequest and TransferRequest: the
\* request is validated before the handler body runs.
ValidAmount(amount) == amount > 0

\* The balance check left out.
InsufficientBalanceNever(balance, amount) == FALSE

\* The balance check with <= for <.
InsufficientBalanceStrict(balance, amount) == balance <= FloatOfInt(amount)

\* sender_wallet.balance < request.amount
InsufficientBalance(balance, amount) == balance < FloatOfInt(amount)

\* sender_wallet.balance -= request.amount
Debit(balance, amount) == balance - FloatOfInt(amount)

\* The credit with the sign of the debit.
CreditSubtracts(balance, amount) == balance - FloatOfInt(amount)

\* recipient_wallet.balance += request.amount
Credit(balance, amount) == balance + FloatOfInt(amount)

\* The settled check left out.
AlreadySettledNever(status) == FALSE

\* transaction.status == TransactionStatus.SUCCESS
AlreadySettled(status) == status = SUCCESS

\* The signature check accepting every signature that is present.
VerifyWebhookSignatureAlways(signature) == TRUE

\* PaystackClient.verify_webhook_signature: the header equals the HMAC-SHA512
\* of the raw body under the secret key.  A signature is "valid" when it is
\* that digest and "invalid" when it is any other string.
VerifyWebhookSignature(signature) == signature = "valid"

\* Every gateway status taken for a success.
SettledStatusAlwaysSuccess(paystack_status) == SUCCESS

\* if paystack_status == "success": status = SUCCESS  else: status = FAILED
SettledStatus(paystack_status) ==
    IF paystack_status = "success" THEN SUCCESS ELSE FAILED

\* The self-transfer check left out.
SameWalletNever(sender, recipient) == FALSE

\* The test comparing the sender's id with the recipient's wallet number.
SameWalletComparesNumber(sender, recipient) ==
    sender = wallets[recipient].wallet_number

\* sender_wallet.id == recipient_wallet.id
SameWallet(sender, recipient) == sender = recipient

(***************************************************************************)
(* The store.                                                              *)
(***************************************************************************)
\* The lookup that finds no row: no stored reference is ever seen.
FindTransactionNever(reference) == 0

\* db.query(Transaction).filter(Transaction.reference == reference).first():
\* the row id (its position) or 0.
FindTransaction(reference) ==
    IF \E i \in 1..Len(transactions) : transactions[i].reference = reference
    THEN CHOOSE i \in 1..Len(transactions) : transactions[i].reference = reference
    ELSE 0

\* db.query(Wallet).filter(Wallet.wallet_number == n).first(): the wallet id
\* (the owning user's id) or NoWallet.
FindWalletByNumber(n) ==
    IF \E w \in DOMAIN wallets : wallets[w].wallet_number = n
    THEN CHOOSE w \in DOMAIN wallets : wallets[w].wallet_number = n
    ELSE NoWallet

Transaction(reference, type, amount, status, sender, recipient) ==
    [reference |-> reference, type |-> type, amount |-> amount, status |-> status,
     sender_wallet_id |-> sender, recipient_wallet_id |-> recipient]

Wallet(wallet_number, balance) ==
    [wallet_number |-> wallet_number, balance |-> balance]

\* The money in the ledger, for the bound MaxMoney.
RECURSIVE SumBalances(_)
SumBalances(ws) ==
    IF ws = {} THEN 0
    ELSE LET w == CHOOSE x \in ws : TRUE IN wallets[w].balance + SumBalances(ws \ {w})

TotalMoney == SumBalances(DOMAIN wallets)

(***************************************************************************)
(* A worker's session: the request it serves and what it has loaded.       *)
(***************************************************************************)
NoSess ==
    [op |-> "none", user |-> "none", wallet_number |-> "none", amount |-> 0,
     reference |-> NoRef, tx |-> 0, status |-> "none", sender_balance |-> 0,
     recipient |-> NoWallet, recipient_balance |-> 0, code |-> 0, detail |-> "none",
     permissions |-> {}, expiry |-> "none", key_id |-> 0, body |-> <<>>,
     charge |-> 0]

\* The handler returns or raises HTTPException: the response is produced and
\* nothing of the session is written.
Respond(p, op, code, detail) ==
    /\ pc' = [pc EXCEPT ![p] = "done"]
    /\ sess' = [sess EXCEPT ![p] = [NoSess EXCEPT !.op = op, !.code = code, !.detail = detail]]

\* A request is handed to the first free worker.
Free(p) == pc[p] = "idle" /\ \A q \in Procs : q < p => pc[q] # "idle"

(***************************************************************************)
(* API keys and authentication (app/models.py, app/auth.py, app/utils.py). *)
(***************************************************************************)
\* if active_keys_count >= 5
MaxActiveKeys == 5

\* valid_permissions = ["deposit", "transfer", "read"]
Permissions == {"deposit", "transfer", "read"}

\* The permission lists requests ask for: two of valid permissions and one
\* that names a permission the service does not have.
PermissionSets == {{"read"}, {"deposit", "transfer", "read"}, {"read", "admin"}}

\* Every permission list taken to be valid.
ValidPermissionsAlways(v) == TRUE

\* for perm in v: if perm not in valid_permissions: raise
ValidPermissions(v) == v \subseteq Permissions

\* "1H" and "1D", in hours.
ExpiryOptions == {"1H", "1D"}
ExpiryDelta(expiry) == IF expiry = "1H" THEN 1 ELSE 24

\* parse_expiry: datetime.utcnow() + timedelta(...)
ParseExpiry(expiry) == now + ExpiryDelta(expiry)

\* The names class APIKey defines: its columns, its relationship and its one
\* static method.
APIKeyAttributes ==
    {"id", "user_id", "name", "key", "permissions", "expires_at", "is_active",
     "created_at", "user", "generate_key"}

\* expiry: str in CreateAPIKeyRequest and RolloverAPIKeyRequest.
RequestExpiryType == "str"

\* Every attribute taken to exist.
HasAttrAlways(type, name) == TRUE

\* Python attribute lookup on the types the handlers use: APIKey has the names
\* the class defines, an ExpiryOption (an Enum) has value and name, a str has
\* neither.  A failed lookup raises AttributeError; the declarative
\* constructor raises TypeError for a keyword that is not an attribute.
HasAttr(type, name) ==
    IF type = "APIKey" THEN name \in APIKeyAttributes
    ELSE IF type = "ExpiryOption" THEN name \in {"value", "name"}
    ELSE FALSE

\* A datetime: its instant and its tzinfo.  A DateTime column holds naive
\* values; datetime.now(timezone.utc) is aware.
DateTimeColumn(t) == [t |-> t, tzinfo |-> "none"]
NowAware == [t |-> now, tzinfo |-> "utc"]

\* a < b on datetimes raises TypeError unless both are naive or both aware.
Comparable(a, b) == (a.tzinfo = "none") <=> (b.tzinfo = "none")

APIKey(user_id, key, permissions, expires_at) ==
    [user_id |-> user_id, key |-> key, permissions |-> permissions,
     expires_at |-> expires_at, is_active |-> TRUE]

\* The x-api-key header: absent, or a key string.
NoKey == "none"
KeyStrings == {"sk_live_1", "sk_live_2", "sk_live_5", "sk_live_bogus"}

\* The x-api-key header of the requests to the key routes: absent, or the key
\* of a@x.io that holds every permission.
ManagementKeys == {NoKey, "sk_live_2"}

\* The key ids requests name: rows of a@x.io, a row of b@x.io, no row.
KeyIds == {1, 5, 6, 7}

\* The Authorization header: absent, or a bearer token with the subject it
\* names and whether it is signed with the secret key and unexpired.
NoCredentials == [present |-> FALSE, signed |-> FALSE, sub |-> "none"]
Bearer(signed, sub) == [present |-> TRUE, signed |-> signed, sub |-> sub]
Credentials ==
    {NoCredentials, Bearer(FALSE, "a@x.io"), Bearer(TRUE, "ghost@x.io"),
     Bearer(TRUE, "a@x.io"), Bearer(TRUE, "b@x.io")}

\* verify_token: the payload, or None on JWTError.
VerifyToken(token) == [decoded |-> token.signed, sub |-> token.sub]

\* The outcome of a dependency: the HTTP error it raises, or the user and the
\* permissions (scoped = FALSE stands for permissions None).
AuthError(code, detail) ==
    [code |-> code, detail |-> detail, user |-> "none", scoped |-> FALSE,
     permissions |-> {}]
Authenticated(user, scoped, permissions) ==
    [code |-> 200, detail |-> "ok", user |-> user, scoped |-> scoped,
     permissions |-> permissions]

\* The decoded token's user.
UserOfToken(token) ==
    LET payload == VerifyToken(token) IN
    IF ~payload.decoded THEN AuthError(401, "Invalid or expired JWT token")
    ELSE IF payload.sub = "none" THEN AuthError(401, "Invalid token payload")
    ELSE IF payload.sub \notin users THEN AuthError(401, "User not found")
    ELSE Authenticated(payload.sub, FALSE, {})

\* No check at all: the request is served as the token's subject when that is
\* a user and as the first user otherwise.
GetCurrentUserJwtOnlyUnverified(credentials) ==
    IF credentials.sub \in users
    THEN Authenticated(credentials.sub, FALSE, {})
    ELSE Authenticated("a@x.io", FALSE, {})

\* get_current_user_jwt_only
GetCurrentUserJwtOnly(credentials) ==
    IF ~credentials.present
    THEN AuthError(401, "JWT authentication required. API keys cannot manage other API keys.")
    ELSE UserOfToken(credentials)

\* The first active row the presented key verifies against, or 0.
FindActiveKey(x_api_key) ==
    IF \E i \in 1..Len(api_keys) : api_keys[i].key = x_api_key /\ api_keys[i].is_active
    THEN CHOOSE i \in 1..Len(api_keys) :
             api_keys[i].key = x_api_key /\ api_keys[i].is_active
    ELSE 0

\* The final raise left out: a request without credentials is served as the
\* first user.
GetCurrentUserAllowsAnonymous(credentials, x_api_key) ==
    IF credentials.present
    THEN UserOfToken(credentials)
    ELSE Authenticated("a@x.io", FALSE, {})

\* The bearer token first, the x-api-key header only without one.
GetCurrentUserBearerFirst(credentials, x_api_key) ==
    IF credentials.present
    THEN UserOfToken(credentials)
    ELSE IF x_api_key # NoKey
    THEN AuthError(500, "Internal server error")
    ELSE AuthError(401, "Authentication required")

\* get_current_user: the x-api-key header first, then the bearer token.
GetCurrentUser(credentials, x_api_key) ==
    IF x_api_key # NoKey
    THEN IF ~(/\ HasAttr("APIKey", "get_key_prefix")
              /\ HasAttr("APIKey", "key_prefix")
              /\ HasAttr("APIKey", "key_hash"))
         THEN AuthError(500, "Internal server error")
         ELSE LET k == FindActiveKey(x_api_key) IN
              IF k = 0 THEN AuthError(401, "Invalid API key")
              ELSE IF api_keys[k].expires_at < now
              THEN AuthError(401, "API key has expired")
              ELSE IF api_keys[k].user_id \notin users
              THEN AuthError(401, "User not found")
              ELSE Authenticated(api_keys[k].user_id, TRUE, api_keys[k].permissions)
    ELSE IF credentials.present
    THEN UserOfToken(credentials)
    ELSE AuthError(401, "Authentication required")

\* permission_checker
PermissionChecker(permission, auth) ==
    IF auth.code # 200 THEN auth
    ELSE IF ~auth.scoped THEN auth
    ELSE IF permission \notin auth.permissions
    THEN AuthError(403, "API key lacks required permission")
    ELSE auth

\* The count query of create and rollover.
ActiveKeysCount(user) ==
    Cardinality({i \in 1..Len(api_keys) :
                    /\ api_keys[i].user_id = user
                    /\ api_keys[i].is_active
                    /\ api_keys[i].expires_at > now})

\* The lookup by id alone, whoever owns the row.
FindKeyAnyOwner(key_id, user) ==
    IF key_id \in 1..Len(api_keys) THEN key_id ELSE 0

\* db.query(APIKey).filter(id == key_id, user_id == user.id).first()
FindKey(key_id, user) ==
    IF key_id \in 1..Len(api_keys) /\ api_keys[key_id].user_id = user
    THEN key_id ELSE 0

\* The api_keys table the service starts from: the rows stored before the
\* key hashing migration, which renames the key column and keeps the rows.
\* a@x.io is at the cap of five active keys, one of them expiring earlier.
StoredKeys ==
    << APIKey("a@x.io", "sk_live_1", {"read"}, 2),
       APIKey("a@x.io", "sk_live_2", {"deposit", "transfer", "read"}, 2),
       APIKey("a@x.io", "sk_live_3", {"read"}, 2),
       APIKey("a@x.io", "sk_live_4", {"read"}, 2),
       APIKey("a@x.io", "sk_live_5", {"transfer"}, 1),
       APIKey("b@x.io", "sk_live_6", {"read"}, 2) >>

\* A handler body runs for the user its dependency returned: either the
\* worker has resolved require_permission (pc "authorized"), or the request
\* carries the user's session token and is taken by a free worker.
Serves(p, permission, user) ==
    IF pc[p] = "authorized"
    THEN sess[p].op = permission /\ sess[p].user = user
    ELSE Free(p)

\* login(): a user is created together with a wallet of balance 0 and a
\* generated wallet number.  The store the ledger starts from is the one after
\* every user has logged in once.
WalletNumberOf(email) == IF email = "a@x.io" THEN "0000000001" ELSE "0000000002"

Init ==
    /\ users = Emails
    /\ wallets = [email \in Emails |-> Wallet(WalletNumberOf(email), 0)]
    /\ transactions = <<>>
    /\ api_keys = StoredKeys
    /\ now = 0
    /\ pc = [p \in Procs |-> "idle"]
    /\ sess = [p \in Procs |-> NoSess]

\* get_db: the session is closed once the response has been sent.
Close(p) ==
    /\ pc[p] = "done"
    /\ pc' = [pc EXCEPT ![p] = "idle"]
    /\ sess' = [sess EXCEPT ![p] = NoSess]
    /\ UNCHANGED <<identity, wallets, transactions>>

(***************************************************************************)
(* POST /wallet/deposit                                                    *)
(***************************************************************************)
\* The wallet query, the generated reference and the duplicate query.
DepositBegin(p, user, amount, reference) ==
    /\ Serves(p, "deposit", user)
    /\ user \in users
    /\ IF ~ValidAmount(amount)
       THEN Respond(p, "deposit", 422, "Input should be greater than 0")
       ELSE IF user \notin DOMAIN wallets
       THEN Respond(p, "deposit", 404, "Wallet not found")
       ELSE IF FindTransaction(reference) # 0
       THEN Respond(p, "deposit", 400, "Duplicate transaction reference")
       ELSE /\ pc' = [pc EXCEPT ![p] = "deposit_commit"]
            /\ sess' = [sess EXCEPT ![p] = [NoSess EXCEPT !.op = "deposit", !.user = user,
                                             !.amount = amount, !.reference = reference]]
    /\ UNCHANGED <<identity, wallets, transactions>>

\* The deposit credited when it is initiated.
DepositCommitCredits(p) ==
    /\ pc[p] = "deposit_commit"
    /\ IF FindTransaction(sess[p].reference) # 0
       THEN /\ Respond(p, "deposit", 500, "IntegrityError")
            /\ UNCHANGED <<wallets, transactions>>
       ELSE /\ transactions' = Append(transactions,
                                  Transaction(sess[p].reference, DEPOSIT,
                                              FloatOfInt(sess[p].amount), PENDING,
                                              NoWallet, sess[p].user))
            /\ wallets' = [wallets EXCEPT ![sess[p].user].balance =
                                              Credit(@, sess[p].amount)]
            /\ pc' = [pc EXCEPT ![p] = "deposit_gateway"]
            /\ sess' = [sess EXCEPT ![p].tx = Len(transactions) + 1,
                                    ![p].charge = PaystackCharge(sess[p].amount)]
    /\ UNCHANGED identity

\* db.add(transaction); db.commit(): transactions.reference is a unique column.
\* The worker goes on to ask the gateway for the charge.
DepositCommit(p) ==
    /\ pc[p] = "deposit_commit"
    /\ IF FindTransaction(sess[p].reference) # 0
       THEN /\ Respond(p, "deposit", 500, "IntegrityError")
            /\ UNCHANGED transactions
       ELSE /\ transactions' = Append(transactions,
                                  Transaction(sess[p].reference, DEPOSIT,
                                              FloatOfInt(sess[p].amount), PENDING,
                                              NoWallet, sess[p].user))
            /\ pc' = [pc EXCEPT ![p] = "deposit_gateway"]
            /\ sess' = [sess EXCEPT ![p].tx = Len(transactions) + 1,
                                    ![p].charge = PaystackCharge(sess[p].amount)]
    /\ UNCHANGED <<identity, wallets>>

\* The gateway failure reported without the status = FAILED write.
DepositGatewayLeavesPending(p, initialized) ==
    /\ pc[p] = "deposit_gateway"
    /\ IF initialized
       THEN Respond(p, "deposit", 200, "ok")
       ELSE Respond(p, "deposit", 400, "Failed to initialize payment")
    /\ UNCHANGED <<identity, wallets, transactions>>

\* await paystack.initialize_transaction(...): it returns the authorization
\* url, or raises (an HTTP error status, a timeout, a body without status) and
\* the handler writes status = FAILED to its row.
DepositGateway(p, initialized) ==
    /\ pc[p] = "deposit_gateway"
    /\ IF initialized
       THEN /\ Respond(p, "deposit", 200, "ok")
            /\ UNCHANGED transactions
       ELSE /\ transactions' = [transactions EXCEPT ![sess[p].tx].status = FAILED]
            /\ Respond(p, "deposit", 400, "Failed to initialize payment")
    /\ UNCHANGED <<identity, wallets>>

(***************************************************************************)
(* POST /wallet/paystack/webhook                                           *)
(***************************************************************************)
\* The signature gate, the parsed payload and the transaction query.
\* signature: "missing", "invalid" or "valid".
WebhookBegin(p, signature, event, reference, raw_amount, paystack_status) ==
    /\ Free(p)
    /\ (signature = "valid" /\ paystack_status = "success")
           => TotalMoney < FloatOfInt(MaxMoney)
    /\ LET tx == FindTransaction(reference) IN
       IF signature = "missing"
       THEN Respond(p, "webhook", 401, "Missing signature")
       ELSE IF ~VerifyWebhookSignature(signature)
       THEN Respond(p, "webhook", 401, "Invalid signature")
       ELSE IF event # "charge.success" \/ reference = NoRef \/ tx = 0
       THEN Respond(p, "webhook", 200, "ok")
       ELSE IF AlreadySettled(transactions[tx].status)
       THEN Respond(p, "webhook", 200, "ok")
       ELSE /\ sess' = [sess EXCEPT ![p] =
                          [NoSess EXCEPT !.op = "webhook", !.reference = reference,
                                         !.tx = tx,
                                         !.amount = WebhookAmount(raw_amount),
                                         !.recipient = transactions[tx].recipient_wallet_id,
                                         !.status = SettledStatus(paystack_status)]]
            /\ pc' = [pc EXCEPT ![p] = IF SettledStatus(paystack_status) = SUCCESS
                                       THEN "webhook_wallet" ELSE "webhook_commit"]
    /\ UNCHANGED <<identity, wallets, transactions>>

\* wallet = db.query(Wallet)...first(); if wallet: wallet.balance += amount
WebhookWallet(p) ==
    /\ pc[p] = "webhook_wallet"
    /\ pc' = [pc EXCEPT ![p] = "webhook_commit"]
    /\ sess' = [sess EXCEPT ![p].recipient_balance =
                   IF sess[p].recipient \in DOMAIN wallets
                   THEN wallets[sess[p].recipient].balance + sess[p].amount
                   ELSE 0]
    /\ UNCHANGED <<identity, wallets, transactions>>

\* The settlement that also overwrites the recorded amount with the payload's.
WebhookCommitRewritesAmount(p) ==
    /\ pc[p] = "webhook_commit"
    /\ transactions' = [transactions EXCEPT ![sess[p].tx].status = sess[p].status,
                                            ![sess[p].tx].amount = sess[p].amount]
    /\ wallets' = IF sess[p].status = SUCCESS /\ sess[p].recipient \in DOMAIN wallets
                  THEN [wallets EXCEPT ![sess[p].recipient].balance = sess[p].recipient_balance]
                  ELSE wallets
    /\ Respond(p, "webhook", 200, "ok")
    /\ UNCHANGED identity

\* db.commit(): the status, and on the success branch the wallet's balance.
WebhookCommit(p) ==
    /\ pc[p] = "webhook_commit"
    /\ transactions' = [transactions EXCEPT ![sess[p].tx].status = sess[p].status]
    /\ wallets' = IF sess[p].status = SUCCESS /\ sess[p].recipient \in DOMAIN wallets
                  THEN [wallets EXCEPT ![sess[p].recipient].balance = sess[p].recipient_balance]
                  ELSE wallets
    /\ Respond(p, "webhook", 200, "ok")
    /\ UNCHANGED identity

(***************************************************************************)
(* POST /wallet/transfer                                                   *)
(***************************************************************************)
\* The sender's wallet and the balance check.
TransferBegin(p, user, wallet_number, amount) ==
    /\ Serves(p, "transfer", user)
    /\ user \in users
    /\ IF ~ValidAmount(amount)
       THEN Respond(p, "transfer", 422, "Input should be greater than 0")
       ELSE IF user \notin DOMAIN wallets
       THEN Respond(p, "transfer", 404, "Wallet not found")
       ELSE IF InsufficientBalance(wallets[user].balance, amount)
       THEN Respond(p, "transfer", 400, "Insufficient balance")
       ELSE /\ pc' = [pc EXCEPT ![p] = "transfer_recipient"]
            /\ sess' = [sess EXCEPT ![p] =
                          [NoSess EXCEPT !.op = "transfer", !.user = user,
                                         !.wallet_number = wallet_number,
                                         !.amount = amount,
                                         !.sender_balance = wallets[user].balance]]
    /\ UNCHANGED <<identity, wallets, transactions>>

\* The recipient's wallet, the self-transfer check, the generated reference
\* and the assignments to the loaded rows.
TransferRecipient(p, reference) ==
    /\ pc[p] = "transfer_recipient"
    /\ LET recipient == FindWalletByNumber(sess[p].wallet_number) IN
       IF recipient = NoWallet
       THEN Respond(p, "transfer", 404, "Recipient wallet not found")
       ELSE IF SameWallet(sess[p].user, recipient)
       THEN Respond(p, "transfer", 400, "Cannot transfer to your own wallet")
       ELSE /\ pc' = [pc EXCEPT ![p] = "transfer_commit"]
            /\ sess' = [sess EXCEPT ![p].reference = reference,
                                    ![p].recipient = recipient,
                                    ![p].recipient_balance = wallets[recipient].balance]
    /\ UNCHANGED <<identity, wallets, transactions>>

\* The commit without the rollback: a failed insert leaves the debit written.
TransferCommitKeepsDebit(p) ==
    /\ pc[p] = "transfer_commit"
    /\ wallets' = [wallets EXCEPT
                     ![sess[p].user].balance =
                         Debit(sess[p].sender_balance, sess[p].amount),
                     ![sess[p].recipient].balance =
                         IF FindTransaction(sess[p].reference) # 0 THEN @
                         ELSE Credit(sess[p].recipient_balance, sess[p].amount)]
    /\ IF FindTransaction(sess[p].reference) # 0
       THEN /\ Respond(p, "transfer", 500, "Transfer failed")
            /\ UNCHANGED transactions
       ELSE /\ transactions' = Append(transactions,
                                  Transaction(sess[p].reference, TRANSFER,
                                              FloatOfInt(sess[p].amount), SUCCESS,
                                              sess[p].user, sess[p].recipient))
            /\ Respond(p, "transfer", 200, "Transfer completed")
    /\ UNCHANGED identity

\* db.commit() of the new row and both balances; on an exception db.rollback()
\* (the row that was never inserted leaves the session) and the 500 response.
TransferCommit(p) ==
    /\ pc[p] = "transfer_commit"
    /\ IF FindTransaction(sess[p].reference) # 0
       THEN /\ Respond(p, "transfer", 500, "Transfer failed")
            /\ UNCHANGED <<wallets, transactions>>
       ELSE /\ transactions' = Append(transactions,
                                  Transaction(sess[p].reference, TRANSFER,
                                              FloatOfInt(sess[p].amount), SUCCESS,
                                              sess[p].user, sess[p].recipient))
            /\ wallets' = [wallets EXCEPT
                             ![sess[p].user].balance =
                                 Debit(sess[p].sender_balance, sess[p].amount),
                             ![sess[p].recipient].balance =
                                 Credit(sess[p].recipient_balance, sess[p].amount)]
            /\ Respond(p, "transfer", 200, "Transfer completed")
    /\ UNCHANGED identity

(***************************************************************************)
(* Depends(require_permission(permission)) of the wallet routes.           *)
(***************************************************************************)
RequirePermission(p, permission, credentials, x_api_key) ==
    /\ Free(p)
    /\ LET auth == PermissionChecker(permission,
                                     GetCurrentUser(credentials, x_api_key)) IN
       IF auth.code # 200
       THEN Respond(p, permission, auth.code, auth.detail)
       ELSE /\ pc' = [pc EXCEPT ![p] = "authorized"]
            /\ sess' = [sess EXCEPT ![p] =
                          [NoSess EXCEPT !.op = permission, !.user = auth.user]]
    /\ UNCHANGED <<identity, wallets, transactions>>

\* GET /wallet/balance
GetBalance(p) ==
    /\ pc[p] = "authorized" /\ sess[p].op = "read"
    /\ IF sess[p].user \notin DOMAIN wallets
       THEN Respond(p, "read", 404, "Wallet not found")
       ELSE Respond(p, "read", 200, "ok")
    /\ UNCHANGED <<identity, wallets, transactions>>

\* created_at = Column(DateTime, default=datetime.utcnow): the instant at which
\* the row is flushed by the commit that inserts it.  Commits are serialized,
\* so the rows carry increasing instants in the order of their ids.
CreatedAt(i) == i

\* A Float column value that holds a whole number, and the int a response
\* field declared int takes from it (a fractional value fails validation).
IsIntegral(v) == v % KoboPerNaira = 0
IntOfFloat(v) == v \div KoboPerNaira

\* TransactionResponse.from_orm(t)
TransactionResponse(i) ==
    [id |-> i, type |-> transactions[i].type,
     amount |-> IntOfFloat(transactions[i].amount),
     status |-> transactions[i].status,
     reference |-> transactions[i].reference, created_at |-> CreatedAt(i)]

\* filter((sender_wallet_id == wallet.id) | (recipient_wallet_id == wallet.id))
TransactionsOf(wallet) ==
    {i \in 1..Len(transactions) :
        \/ transactions[i].sender_wallet_id = wallet
        \/ transactions[i].recipient_wallet_id = wallet}

\* The listing in ascending order of creation.
RECURSIVE OrderByCreatedAtAsc(_)
OrderByCreatedAtAsc(rows) ==
    IF rows = {} THEN <<>>
    ELSE LET oldest == CHOOSE i \in rows :
                           \A j \in rows : CreatedAt(i) <= CreatedAt(j)
         IN <<oldest>> \o OrderByCreatedAtAsc(rows \ {oldest})

\* order_by(Transaction.created_at.desc()).all()
RECURSIVE OrderByCreatedAtDesc(_)
OrderByCreatedAtDesc(rows) ==
    IF rows = {} THEN <<>>
    ELSE LET newest == CHOOSE i \in rows :
                           \A j \in rows : CreatedAt(j) <= CreatedAt(i)
         IN <<newest>> \o OrderByCreatedAtDesc(rows \ {newest})

\* The response carries a body.
RespondWith(p, op, code, detail, body) ==
    /\ pc' = [pc EXCEPT ![p] = "done"]
    /\ sess' = [sess EXCEPT ![p] = [NoSess EXCEPT !.op = op, !.code = code,
                                                  !.detail = detail, !.body = body]]

\* GET /wallet/transactions
GetTransactions(p) ==
    /\ pc[p] = "authorized" /\ sess[p].op = "read"
    /\ LET rows == OrderByCreatedAtDesc(TransactionsOf(sess[p].user)) IN
       IF sess[p].user \notin DOMAIN wallets
       THEN Respond(p, "transactions", 404, "Wallet not found")
       ELSE IF \E k \in 1..Len(rows) : ~IsIntegral(transactions[rows[k]].amount)
       THEN Respond(p, "transactions", 500, "Internal server error")
       ELSE RespondWith(p, "transactions", 200, "ok",
                        [k \in 1..Len(rows) |-> TransactionResponse(rows[k])])
    /\ UNCHANGED <<identity, wallets, transactions>>

\* GET /wallet/deposit/{reference}/status
GetDepositStatus(p, reference) ==
    /\ pc[p] = "authorized" /\ sess[p].op = "read"
    /\ LET tx == FindTransaction(reference) IN
       IF tx = 0 \/ transactions[tx].type # DEPOSIT
       THEN Respond(p, "deposit_status", 404, "Transaction not found")
       ELSE IF transactions[tx].recipient_wallet_id # sess[p].user
       THEN Respond(p, "deposit_status", 403, "Unauthorized access to transaction")
       ELSE RespondWith(p, "deposit_status", 200, "ok",
                        <<[reference |-> reference,
                           status |-> transactions[tx].status,
                           amount |-> IntOfFloat(transactions[tx].amount)]>>)
    /\ UNCHANGED <<identity, wallets, transactions>>

(***************************************************************************)
(* POST /keys/create                                                       *)
(***************************************************************************)
\* The dependency, the validation of the request body and the count of the
\* user's active keys.
CreateBegin(p, credentials, x_api_key, permissions, expiry) ==
    /\ Free(p)
    /\ LET auth == GetCurrentUserJwtOnly(credentials) IN
       IF auth.code # 200
       THEN Respond(p, "create", auth.code, auth.detail)
       ELSE IF ~ValidPermissions(permissions)
       THEN Respond(p, "create", 422, "Invalid permission")
       ELSE IF ActiveKeysCount(auth.user) >= MaxActiveKeys
       THEN Respond(p, "create", 400, "Maximum of 5 active API keys allowed per user")
       ELSE /\ pc' = [pc EXCEPT ![p] = "create_store"]
            /\ sess' = [sess EXCEPT ![p] =
                          [NoSess EXCEPT !.op = "create", !.user = auth.user,
                                         !.permissions = permissions,
                                         !.expiry = expiry]]
    /\ UNCHANGED <<users, api_keys, now, wallets, transactions>>

\* The permission loop, request.expiry.value (AttributeError, caught: 400),
\* the generated key, its prefix, the APIKey row and the commit.
CreateStore(p) ==
    /\ pc[p] = "create_store"
    /\ IF ~ValidPermissions(sess[p].permissions)
       THEN /\ Respond(p, "create", 400, "Invalid permission")
            /\ UNCHANGED api_keys
       ELSE IF ~HasAttr(RequestExpiryType, "value")
       THEN /\ Respond(p, "create", 400, "Invalid expiry value")
            /\ UNCHANGED api_keys
       ELSE IF ~(/\ HasAttr("APIKey", "get_key_prefix")
                 /\ HasAttr("APIKey", "key_hash")
                 /\ HasAttr("APIKey", "key_prefix"))
       THEN /\ Respond(p, "create", 500, "Internal server error")
            /\ UNCHANGED api_keys
       ELSE /\ Len(api_keys) < MaxKeys
            /\ api_keys' = Append(api_keys,
                                  APIKey(sess[p].user, "sk_live_new",
                                         sess[p].permissions,
                                         ParseExpiry(sess[p].expiry)))
            /\ Respond(p, "create", 200, "ok")
    /\ UNCHANGED <<users, now, wallets, transactions>>

(***************************************************************************)
(* POST /keys/rollover                                                     *)
(***************************************************************************)
\* The whole handler: the dependency, the key query, the expiry comparison
\* (a naive column value against datetime.now(timezone.utc): TypeError), the
\* count query, parse_expiry(request.expiry.value), the new row, the commit.
Rollover(p, credentials, x_api_key, expired_key_id, expiry) ==
    /\ Free(p)
    /\ LET auth == GetCurrentUserJwtOnly(credentials)
           k == FindKey(expired_key_id, auth.user) IN
       IF auth.code # 200
       THEN /\ Respond(p, "rollover", auth.code, auth.detail)
            /\ UNCHANGED api_keys
       ELSE IF k = 0
       THEN /\ Respond(p, "rollover", 404, "API key not found")
            /\ UNCHANGED api_keys
       ELSE IF ~Comparable(DateTimeColumn(api_keys[k].expires_at), NowAware)
       THEN /\ Respond(p, "rollover", 500, "Internal server error")
            /\ UNCHANGED api_keys
       ELSE IF DateTimeColumn(api_keys[k].expires_at).t < NowAware.t
       THEN /\ Respond(p, "rollover", 400, "API key is not expired yet")
            /\ UNCHANGED api_keys
       ELSE IF ActiveKeysCount(auth.user) >= MaxActiveKeys
       THEN /\ Respond(p, "rollover", 400, "Maximum of 5 active API keys allowed per user")
            /\ UNCHANGED api_keys
       ELSE IF ~(/\ HasAttr(RequestExpiryType, "value")
                 /\ HasAttr("APIKey", "get_key_prefix")
                 /\ HasAttr("APIKey", "key_hash")
                 /\ HasAttr("APIKey", "key_prefix"))
       THEN /\ Respond(p, "rollover", 500, "Internal server error")
            /\ UNCHANGED api_keys
       ELSE /\ Len(api_keys) < MaxKeys
            /\ api_keys' = Append(api_keys,
                                  APIKey(auth.user, "sk_live_new",
                                         api_keys[k].permissions,
                                         ParseExpiry(expiry)))
            /\ Respond(p, "rollover", 200, "ok")
    /\ UNCHANGED <<users, now, wallets, transactions>>

(***************************************************************************)
(* DELETE /keys/revoke/{key_id}                                            *)
(***************************************************************************)
RevokeBegin(p, credentials, x_api_key, key_id) ==
    /\ Free(p)
    /\ LET auth == GetCurrentUserJwtOnly(credentials) IN
       IF auth.code # 200
       THEN Respond(p, "revoke", auth.code, auth.detail)
       ELSE IF FindKey(key_id, auth.user) = 0
       THEN Respond(p, "revoke", 404, "API key not found")
       ELSE /\ pc' = [pc EXCEPT ![p] = "revoke_commit"]
            /\ sess' = [sess EXCEPT ![p] =
                          [NoSess EXCEPT !.op = "revoke", !.user = auth.user,
                                         !.key_id = key_id]]
    /\ UNCHANGED <<users, api_keys, now, wallets, transactions>>

\* The revocation answered without the write of is_active.
RevokeCommitKeepsActive(p) ==
    /\ pc[p] = "revoke_commit"
    /\ Respond(p, "revoke", 200, "API key revoked successfully")
    /\ UNCHANGED <<users, api_keys, now, wallets, transactions>>

\* api_key.is_active = False; db.commit()
RevokeCommit(p) ==
    /\ pc[p] = "revoke_commit"
    /\ api_keys' = [api_keys EXCEPT ![sess[p].key_id].is_active = FALSE]
    /\ Respond(p, "revoke", 200, "API key revoked successfully")
    /\ UNCHANGED <<users, now, wallets, transactions>>

(***************************************************************************)
(* GET /keys/list                                                          *)
(***************************************************************************)
\* APIKeyResponse(...) of a row.
APIKeyResponse(i) ==
    [id |-> i, permissions |-> api_keys[i].permissions,
     is_active |-> api_keys[i].is_active,
     is_expired |-> api_keys[i].expires_at < now]

\* db.query(APIKey).filter(APIKey.user_id == user.id)
KeysOf(user) == {i \in 1..Len(api_keys) : api_keys[i].user_id = user}

\* The rows of the user, newest first; the response reads key.key_prefix of
\* each.
ListKeys(p, credentials, x_api_key) ==
    /\ Free(p)
    /\ LET auth == GetCurrentUserJwtOnly(credentials)
           keys == OrderByCreatedAtDesc(KeysOf(auth.user)) IN
       IF auth.code # 200
       THEN Respond(p, "list", auth.code, auth.detail)
       ELSE IF keys # <<>> /\ ~HasAttr("APIKey", "key_prefix")
       THEN Respond(p, "list", 500, "Internal server error")
       ELSE RespondWith(p, "list", 200, "ok",
                        [k \in 1..Len(keys) |-> APIKeyResponse(keys[k])])
    /\ UNCHANGED <<users, api_keys, now, wallets, transactions>>

\* Time passes.
Tick ==
    /\ now < MaxNow
    /\ now' = now + 1
    /\ UNCHANGED <<users, api_keys, wallets, transactions, pc, sess>>

(***************************************************************************)
(* POST /auth/login and GET /auth/google/callback                          *)
(***************************************************************************)
\* The emails that authenticate: the stored users and two that are not users.
LoginEmails == Emails \cup {"c@x.io", "d@x.io"}

\* generate_wallet_number(): ten random digits.
GeneratedWalletNumbers == WalletNumbers \cup {"0000000004"}

\* The two routes: login lets an exception reach the global handler (500),
\* google_callback catches it and raises 400.
LoginRoutes == {"login", "google"}
LoginFailureCode(route) == IF route = "login" THEN 500 ELSE 400

\* db.query(User).filter(User.email == email).first()
LoginBegin(p, route, email) ==
    /\ Free(p)
    /\ IF email \in users
       THEN Respond(p, route, 200, "ok")
       ELSE /\ pc' = [pc EXCEPT ![p] = "login_commit"]
            /\ sess' = [sess EXCEPT ![p] = [NoSess EXCEPT !.op = route, !.user = email]]
    /\ UNCHANGED <<identity, wallets, transactions>>

\* The user committed by the flush, the wallet by a commit of its own: a
\* wallet number that is taken leaves the user without a wallet.
LoginCommitUserFirst(p, wallet_number) ==
    /\ pc[p] = "login_commit"
    /\ IF sess[p].user \in users
       THEN /\ Respond(p, sess[p].op, LoginFailureCode(sess[p].op),
                       "UNIQUE constraint failed: users.email")
            /\ UNCHANGED <<users, wallets>>
       ELSE /\ users' = users \cup {sess[p].user}
            /\ IF FindWalletByNumber(wallet_number) # NoWallet
               THEN /\ Respond(p, sess[p].op, LoginFailureCode(sess[p].op),
                               "UNIQUE constraint failed: wallets.wallet_number")
                    /\ UNCHANGED wallets
               ELSE /\ wallets' = [w \in DOMAIN wallets \cup {sess[p].user} |->
                                      IF w = sess[p].user THEN Wallet(wallet_number, 0)
                                      ELSE wallets[w]]
                    /\ Respond(p, sess[p].op, 200, "ok")
    /\ UNCHANGED <<api_keys, now, transactions>>

\* db.add(user); db.flush(); the generated wallet number; db.add(wallet);
\* db.commit(): one database transaction.  users.email, wallets.user_id and
\* wallets.wallet_number are unique: a violation raises IntegrityError and
\* nothing of the transaction is stored.
LoginCommit(p, wallet_number) ==
    /\ pc[p] = "login_commit"
    /\ IF sess[p].user \in users
       THEN /\ Respond(p, sess[p].op, LoginFailureCode(sess[p].op),
                       "UNIQUE constraint failed: users.email")
            /\ UNCHANGED <<users, wallets>>
       ELSE IF FindWalletByNumber(wallet_number) # NoWallet
       THEN /\ Respond(p, sess[p].op, LoginFailureCode(sess[p].op),
                       "UNIQUE constraint failed: wallets.wallet_number")
            /\ UNCHANGED <<users, wallets>>
       ELSE /\ users' = users \cup {sess[p].user}
            /\ wallets' = [w \in DOMAIN wallets \cup {sess[p].user} |->
                              IF w = sess[p].user THEN Wallet(wallet_number, 0)
                              ELSE wallets[w]]
            /\ Respond(p, sess[p].op, 200, "ok")
    /\ UNCHANGED <<api_keys, now, transactions>>

(***************************************************************************)
(* The service.                                                            *)
(***************************************************************************)
Signatures == {"missing", "invalid", "valid"}
Events == {"charge.success", "transfer.success"}
PaystackStatuses == {"success", "failed"}

Next ==
    \E p \in Procs :
        \/ \E user \in Emails, amount \in Amounts, reference \in DepRefs :
               DepositBegin(p, user, amount, reference)
        \/ DepositCommit(p)
        \/ \E initialized \in BOOLEAN : DepositGateway(p, initialized)
        \/ \E signature \in Signatures, event \in Events,
              reference \in References \cup {NoRef}, raw_amount \in PaystackAmounts,
              paystack_status \in PaystackStatuses :
               WebhookBegin(p, signature, event, reference, raw_amount, paystack_status)
        \/ WebhookWallet(p)
        \/ WebhookCommit(p)
        \/ \E user \in Emails, wallet_number \in WalletNumbers, amount \in Amounts :
               TransferBegin(p, user, wallet_number, amount)
        \/ \E reference \in TrfRefs : TransferRecipient(p, reference)
        \/ TransferCommit(p)
        \/ Close(p)

Spec == Init /\ [][Next]_vars

\* The key management routes.
KeysNext ==
    \/ \E p \in Procs :
           \/ \E credentials \in Credentials, x_api_key \in ManagementKeys,
                 permissions \in PermissionSets, expiry \in ExpiryOptions :
                  CreateBegin(p, credentials, x_api_key, permissions, expiry)
           \/ CreateStore(p)
           \/ \E credentials \in Credentials, x_api_key \in ManagementKeys,
                 expired_key_id \in KeyIds, expiry \in ExpiryOptions :
                  Rollover(p, credentials, x_api_key, expired_key_id, expiry)
           \/ \E credentials \in Credentials, x_api_key \in ManagementKeys,
                 key_id \in KeyIds :
                  RevokeBegin(p, credentials, x_api_key, key_id)
           \/ RevokeCommit(p)
           \/ \E credentials \in Credentials, x_api_key \in ManagementKeys :
                  ListKeys(p, credentials, x_api_key)
           \/ Close(p)
    \/ Tick

KeysSpec == Init /\ [][KeysNext]_vars

\* The wallet routes behind their permission dependency, over the ledger
\* before any deposit has settled (a transfer stops at the balance check).
GateNext ==
    \E p \in Procs :
        \/ \E permission \in Permissions, credentials \in Credentials,
              x_api_key \in KeyStrings \cup {NoKey} :
               RequirePermission(p, permission, credentials, x_api_key)
        \/ GetBalance(p)
        \/ GetTransactions(p)
        \/ \E reference \in References : GetDepositStatus(p, reference)
        \/ \E user \in Emails, amount \in Amounts, reference \in DepRefs :
               DepositBegin(p, user, amount, reference)
        \/ DepositCommit(p)
        \/ \E initialized \in BOOLEAN : DepositGateway(p, initialized)
        \/ \E user \in Emails, wallet_number \in WalletNumbers, amount \in Amounts :
               TransferBegin(p, user, wallet_number, amount)
        \/ Close(p)

GateSpec == Init /\ [][GateNext]_vars

\* The authentication routes.
LoginNext ==
    \E p \in Procs :
        \/ \E route \in LoginRoutes, email \in LoginEmails : LoginBegin(p, route, email)
        \/ \E wallet_number \in GeneratedWalletNumbers : LoginCommit(p, wallet_number)
        \/ Close(p)

LoginSpec == Init /\ [][LoginNext]_vars

\* The reference of a deposit made before the requests of the model.
FundedRef == <<"DEP", 0>>

\* The ledger after a@x.io has deposited 1 and the gateway has confirmed the
\* 100 it charged: the deposit is success and the wallet holds 1.
FundedInit ==
    /\ users = Emails
    /\ wallets = [email \in Emails |->
                     Wallet(WalletNumberOf(email),
                            IF email = "a@x.io" THEN WebhookAmount(100) ELSE 0)]
    /\ transactions = << Transaction(FundedRef, DEPOSIT, FloatOfInt(1), SUCCESS,
                                     NoWallet, "a@x.io") >>
    /\ api_keys = StoredKeys
    /\ now = 0
    /\ pc = [p \in Procs |-> "idle"]
    /\ sess = [p \in Procs |-> NoSess]

\* The session tokens of the two users.
SessionTokens == {Bearer(TRUE, "a@x.io"), Bearer(TRUE, "b@x.io")}

\* The read routes and the transfer route over the funded ledger.
ReadNext ==
    \E p \in Procs :
        \/ \E permission \in {"read", "transfer"}, credentials \in SessionTokens :
               RequirePermission(p, permission, credentials, NoKey)
        \/ GetBalance(p)
        \/ GetTransactions(p)
        \/ \E reference \in References \cup {FundedRef} : GetDepositStatus(p, reference)
        \/ \E wallet_number \in WalletNumbers, amount \in Amounts :
               TransferBegin(p, sess[p].user, wallet_number, amount)
        \/ \E reference \in TrfRefs : TransferRecipient(p, reference)
        \/ TransferCommit(p)
        \/ Close(p)

ReadSpec == FundedInit /\ [][ReadNext]_vars

\* The ledger routes for requests that carry any amount: the valid ones, zero
\* and a negative one.
AmountNext ==
    \E p \in Procs :
        \/ \E user \in Emails, amount \in RequestAmounts, reference \in DepRefs :
               DepositBegin(p, user, amount, reference)
        \/ DepositCommit(p)
        \/ \E initialized \in BOOLEAN : DepositGateway(p, initialized)
        \/ \E signature \in Signatures, event \in Events,
              reference \in References \cup {NoRef}, raw_amount \in PaystackAmounts,
              paystack_status \in PaystackStatuses :
               WebhookBegin(p, signature, event, reference, raw_amount, paystack_status)
        \/ WebhookWallet(p)
        \/ WebhookCommit(p)
        \/ \E user \in Emails, wallet_number \in WalletNumbers,
              amount \in RequestAmounts :
               TransferBegin(p, user, wallet_number, amount)
        \/ \E reference \in TrfRefs : TransferRecipient(p, reference)
        \/ TransferCommit(p)
        \/ Close(p)

AmountSpec == Init /\ [][AmountNext]_vars

\* Every route of the service behind its dependency, for requests that carry
\* no credential at all or the session token of a@x.io.
AnonymousOrSession == {NoCredentials, Bearer(TRUE, "a@x.io")}

\* The x-api-key header of their wallet requests: absent, or the first key of
\* a@x.io.
WalletKeys == {NoKey, "sk_live_1"}

ApiNext ==
    \E p \in Procs :
        \/ \E permission \in Permissions, credentials \in AnonymousOrSession,
              x_api_key \in WalletKeys :
               RequirePermission(p, permission, credentials, x_api_key)
        \/ GetBalance(p)
        \/ GetTransactions(p)
        \/ \E reference \in References : GetDepositStatus(p, reference)
        \/ \E amount \in Amounts, reference \in DepRefs :
               DepositBegin(p, sess[p].user, amount, reference)
        \/ DepositCommit(p)
        \/ \E initialized \in BOOLEAN : DepositGateway(p, initialized)
        \/ \E wallet_number \in WalletNumbers, amount \in Amounts :
               TransferBegin(p, sess[p].user, wallet_number, amount)
        \/ \E credentials \in AnonymousOrSession,
              permissions \in PermissionSets, expiry \in ExpiryOptions :
               CreateBegin(p, credentials, NoKey, permissions, expiry)
        \/ CreateStore(p)
        \/ \E credentials \in AnonymousOrSession,
              expired_key_id \in KeyIds, expiry \in ExpiryOptions :
               Rollover(p, credentials, NoKey, expired_key_id, expiry)
        \/ \E credentials \in AnonymousOrSession, key_id \in KeyIds :
               RevokeBegin(p, credentials, NoKey, key_id)
        \/ RevokeCommit(p)
        \/ \E credentials \in AnonymousOrSession : ListKeys(p, credentials, NoKey)
        \/ Close(p)

ApiSpec == Init /\ [][ApiNext]_vars

\* The wallet routes behind their permission dependency while keys are
\* revoked and expire.
PrecedenceNext ==
    \/ \E p \in Procs :
           \/ \E permission \in Permissions, credentials \in Credentials,
                 x_api_key \in KeyStrings \cup {NoKey} :
                  RequirePermission(p, permission, credentials, x_api_key)
           \/ GetBalance(p)
           \/ \E amount \in Amounts, reference \in DepRefs :
                  DepositBegin(p, sess[p].user, amount, reference)
           \/ DepositCommit(p)
           \/ \E initialized \in BOOLEAN : DepositGateway(p, initialized)
           \/ \E wallet_number \in WalletNumbers, amount \in Amounts :
                  TransferBegin(p, sess[p].user, wallet_number, amount)
           \/ \E key_id \in KeyIds :
                  RevokeBegin(p, Bearer(TRUE, "a@x.io"), NoKey, key_id)
           \/ RevokeCommit(p)
           \/ Close(p)
    \/ Tick

PrecedenceSpec == Init /\ [][PrecedenceNext]_vars

(***************************************************************************)
(* Steps of a worker, as the claims speak of them.                         *)
(***************************************************************************)
\* Worker p commits a transfer in this step.
TransferCommits(p) == pc[p] = "transfer_commit" /\ pc'[p] = "done"

\* Worker p commits a webhook settlement in this step.
WebhookCommits(p) == pc[p] = "webhook_commit" /\ pc'[p] = "done"

\* The rows worker p loaded for its transfer are still what the store holds.
TransferUndisturbed(p) ==
    /\ wallets[sess[p].user].balance = sess[p].sender_balance
    /\ wallets[sess[p].recipient].balance = sess[p].recipient_balance

LedgerUnchanged == UNCHANGED <<wallets, transactions>>

\* Worker p takes a webhook request in this step.
WebhookBegins(p) == pc[p] = "idle" /\ pc'[p] # "idle" /\ sess'[p].op = "webhook"

(***************************************************************************)
(* C1: in every reachable state, whatever the interleaving of deposits,    *)
(* webhook settlements and transfers (two concurrent transfers of one      *)
(* sender included), every wallet's balance is >= 0.                       *)
(***************************************************************************)
BalancesNonNegative == \A w \in DOMAIN wallets : wallets[w].balance >= 0

\* A transfer is about to commit although another transfer of the same sender
\* has committed meanwhile and the store no longer holds the amount.
BalancesNonNegativeWitness ==
    \E p \in Procs :
        /\ pc[p] = "transfer_commit"
        /\ wallets[sess[p].user].balance < sess[p].sender_balance
        /\ wallets[sess[p].user].balance < FloatOfInt(sess[p].amount)
        /\ \E i \in 1..Len(transactions) :
               /\ transactions[i].type = TRANSFER
               /\ transactions[i].sender_wallet_id = sess[p].user

(***************************************************************************)
(* C2: the credit of a deposit is applied exactly once: a webhook delivery *)
(* that commits when the store already holds the transaction as success    *)
(* (another delivery of the same payload has settled it) changes no        *)
(* balance.                                                                *)
(***************************************************************************)
SettlementCreditsOnce ==
    [][\A p \in Procs :
          (WebhookCommits(p) /\ transactions[sess[p].tx].status = SUCCESS)
              => wallets' = wallets]_vars

(***************************************************************************)
(* C3: a transaction that is success or failed keeps its status in every   *)
(* later step.                                                             *)
(***************************************************************************)
TerminalStatusIsFinal ==
    [][\A i \in 1..Len(transactions) :
          transactions[i].status \in {SUCCESS, FAILED}
              => transactions'[i].status = transactions[i].status]_vars

(***************************************************************************)
(* C4: of several deliveries for one reference at most one takes the       *)
(* transaction out of pending: a delivery whose transaction another        *)
(* delivery has settled by the time it commits changes neither a           *)
(* transaction nor a balance.                                              *)
(***************************************************************************)
OnlyOneDeliverySettles ==
    [][\A p \in Procs :
          (WebhookCommits(p) /\ transactions[sess[p].tx].status = SUCCESS)
              => LedgerUnchanged]_vars

(***************************************************************************)
(* C5: a transfer is atomic: every step of a worker serving a transfer     *)
(* either leaves wallets and transactions as they are, or applies the      *)
(* debit (X = Bx - A), the credit (Y = By + A) and the success record      *)
(* together, Bx and By being the balances the transfer read.               *)
(***************************************************************************)
TransferApplied(p) ==
    /\ wallets'[sess[p].user].balance =
           sess[p].sender_balance - FloatOfInt(sess[p].amount)
    /\ wallets'[sess[p].recipient].balance =
           sess[p].recipient_balance + FloatOfInt(sess[p].amount)
    /\ Len(transactions') = Len(transactions) + 1
    /\ transactions'[Len(transactions')].status = SUCCESS
    /\ transactions'[Len(transactions')].reference = sess[p].reference

TransferIsAtomic ==
    [][\A p \in Procs :
          ((sess[p].op = "transfer" \/ sess'[p].op = "transfer") /\ pc'[p] # pc[p])
              => (LedgerUnchanged \/ (TransferCommits(p) /\ TransferApplied(p)))]_vars

\* A transfer has committed.
TransferIsAtomicWitness ==
    \E p \in Procs :
        /\ pc[p] = "done" /\ sess[p].op = "transfer" /\ sess[p].code = 200
        /\ \E i \in 1..Len(transactions) : transactions[i].type = TRANSFER

(***************************************************************************)
(* C6: no lost update: a transfer that commits lowers the sender's stored  *)
(* balance by its amount and raises the recipient's by its amount, and a   *)
(* settlement that commits a credit raises the stored balance by its       *)
(* amount, whatever ran concurrently.                                      *)
(***************************************************************************)
NoLostUpdate ==
    [][\A p \in Procs :
          /\ (TransferCommits(p) /\ sess'[p].code = 200)
                => /\ wallets'[sess[p].user].balance =
                          wallets[sess[p].user].balance - FloatOfInt(sess[p].amount)
                   /\ wallets'[sess[p].recipient].balance =
                          wallets[sess[p].recipient].balance + FloatOfInt(sess[p].amount)
          /\ (WebhookCommits(p) /\ sess[p].status = SUCCESS
                                /\ transactions[sess[p].tx].status # SUCCESS)
                => wallets'[sess[p].recipient].balance =
                       wallets[sess[p].recipient].balance + sess[p].amount]_vars

(***************************************************************************)
(* C7: a transfer of A <= balance(X) to another wallet Y that runs without *)
(* interference lowers X by A, raises Y by A and records exactly one new   *)
(* transaction (transfer, success, A, X, Y) whose reference no other       *)
(* transaction has.                                                        *)
(***************************************************************************)
TransferRecorded(p) ==
    /\ sess'[p].code = 200
    /\ wallets' = [wallets EXCEPT
                     ![sess[p].user].balance = @ - FloatOfInt(sess[p].amount),
                     ![sess[p].recipient].balance = @ + FloatOfInt(sess[p].amount)]
    /\ transactions' = Append(transactions,
                              Transaction(sess[p].reference, TRANSFER,
                                          FloatOfInt(sess[p].amount), SUCCESS,
                                          sess[p].user, sess[p].recipient))
    /\ \A i \in 1..Len(transactions) : transactions[i].reference # sess[p].reference

SelfTransferDetail == "Cannot transfer to your own wallet"
InsufficientDetail == "Insufficient balance"

\* The step in which a transfer that has passed the balance check resolves its
\* recipient to the sender's own wallet.
SelfTransferResolved(p) ==
    /\ pc[p] = "transfer_recipient" /\ pc'[p] # pc[p]
    /\ FindWalletByNumber(sess[p].wallet_number) = sess[p].user

SelfTransferRejected(p) ==
    /\ pc'[p] = "done" /\ sess'[p].code = 400 /\ sess'[p].detail = SelfTransferDetail
    /\ LedgerUnchanged

InsufficientFundsExactly ==
    [][\A p \in Procs :
          /\ \A user \in Emails, number \in WalletNumbers, amount \in Amounts :
                 TransferBegin(p, user, number, amount)
                     => /\ LedgerUnchanged
                        /\ (pc'[p] = "done" /\ sess'[p].detail = InsufficientDetail)
                               <=> FloatOfInt(amount) > wallets[user].balance
          /\ (/\ pc[p] = "transfer_recipient" /\ pc'[p] # pc[p]
              /\ \A w \in DOMAIN wallets :
                     wallets[w].wallet_number # sess[p].wallet_number)
                => /\ pc'[p] = "done" /\ sess'[p].code = 404
                   /\ LedgerUnchanged]_vars

\* One transfer has passed the check with an amount equal to the balance while
\* another has been rejected for insufficient funds.
InsufficientFundsExactlyWitness ==
    \E p, q \in Procs :
        /\ pc[p] = "transfer_recipient"
        /\ sess[p].sender_balance = FloatOfInt(sess[p].amount)
        /\ pc[q] = "done" /\ sess[q].detail = InsufficientDetail

(***************************************************************************)
(* C10: a settlement that commits the success branch undisturbed raises    *)
(* the recipient's balance by exactly the amount the webhook payload       *)
(* carries and makes the transaction success in the same step.             *)
(***************************************************************************)
SettlementCreditsConfirmedAmount ==
    [][\A p \in Procs, raw_amount \in PaystackAmounts :
          (/\ WebhookCommits(p) /\ sess[p].status = SUCCESS
           /\ sess[p].amount = WebhookAmount(raw_amount)
           /\ sess[p].recipient_balance =
                  wallets[sess[p].recipient].balance + sess[p].amount)
              => /\ wallets'[sess[p].recipient].balance =
                        wallets[sess[p].recipient].balance + FloatOfInt(raw_amount)
                 /\ transactions'[sess[p].tx].status = SUCCESS]_vars

(***************************************************************************)
(* C11: the signature check is a hard gate: a webhook request whose        *)
(* signature header is missing or is not the keyed hash of the body is     *)
(* rejected (401) and changes no transaction and no balance, whatever its  *)
(* payload says: a step that takes a webhook is such a rejection, or is    *)
(* the step of no request with a missing or invalid signature.             *)
(***************************************************************************)
SignatureIsHardGate ==
    [][\A p \in Procs :
          WebhookBegins(p)
          => \/ /\ pc'[p] = "done" /\ sess'[p].code = 401
                /\ LedgerUnchanged
             \/ \A signature \in Signatures \ {"valid"}, event \in Events,
                   reference \in References \cup {NoRef},
                   raw_amount \in PaystackAmounts,
                   paystack_status \in PaystackStatuses :
                   ~WebhookBegin(p, signature, event, reference, raw_amount,
                                 paystack_status)]_vars

\* A webhook has been rejected for its signature while a deposit is pending.
SignatureIsHardGateWitness ==
    \E p \in Procs :
        /\ pc[p] = "done" /\ sess[p].op = "webhook" /\ sess[p].code = 401
        /\ sess[p].detail = "Invalid signature"
        /\ \E i \in 1..Len(transactions) :
               /\ transactions[i].status = PENDING
               /\ wallets[transactions[i].recipient_wallet_id].balance = 0

(***************************************************************************)
(* C12: if the gateway call of a deposit fails or times out, the deposit's *)
(* transaction ends failed (not pending), the caller receives an error and *)
(* no wallet balance has changed.                                          *)
(***************************************************************************)
GatewayFailureIsTerminal ==
    [][\A p \in Procs :
          DepositGateway(p, FALSE)
              => /\ transactions'[sess[p].tx].status = FAILED
                 /\ pc'[p] = "done" /\ sess'[p].code = 400
                 /\ wallets' = wallets]_vars

\* A deposit whose gateway call failed: the error is returned, its
\* transaction is failed and the wallet holds what it held.
GatewayFailureIsTerminalWitness ==
    \E p \in Procs :
        /\ pc[p] = "done" /\ sess[p].op = "deposit" /\ sess[p].code = 400
        /\ sess[p].detail = "Failed to initialize payment"
        /\ \E i \in 1..Len(transactions) :
               /\ transactions[i].type = DEPOSIT
               /\ transactions[i].status = FAILED
               /\ wallets[transactions[i].recipient_wallet_id].balance = 0

(***************************************************************************)
(* C13: initiating a deposit never changes a wallet balance, whatever the  *)
(* adapter outcome: it appends one pending deposit transaction whose       *)
(* recipient is the caller's wallet; a balance is raised only by the       *)
(* commit of a success settlement for a deposit to that wallet (or by the  *)
(* commit of a transfer).                                                  *)
(***************************************************************************)
DepositLeavesBalances ==
    [][\A p \in Procs :
          /\ ((sess[p].op = "deposit" \/ sess'[p].op = "deposit") /\ pc'[p] # pc[p])
                 => wallets' = wallets
          /\ (pc[p] = "deposit_commit" /\ pc'[p] = "deposit_gateway")
                 => transactions' = Append(transactions,
                                           Transaction(sess[p].reference, DEPOSIT,
                                                       FloatOfInt(sess[p].amount),
                                                       PENDING, NoWallet, sess[p].user))
          /\ \A w \in DOMAIN wallets :
                 wallets'[w].balance > wallets[w].balance
                     => \E q \in Procs :
                            \/ /\ WebhookCommits(q) /\ sess[q].status = SUCCESS
                               /\ transactions[sess[q].tx].type = DEPOSIT
                               /\ transactions[sess[q].tx].recipient_wallet_id = w
                            \/ TransferCommits(q)]_vars

\* A deposit has been initiated and answered; its transaction is pending and
\* the caller's wallet still holds nothing.
DepositLeavesBalancesWitness ==
    \E p \in Procs :
        /\ pc[p] = "done" /\ sess[p].op = "deposit" /\ sess[p].code = 200
        /\ \E i \in 1..Len(transactions) :
               /\ transactions[i].type = DEPOSIT
               /\ transactions[i].status = PENDING
               /\ wallets[transactions[i].recipient_wallet_id].balance = 0

(***************************************************************************)
(* C14: a signature-valid webhook whose reference is missing, matches no   *)
(* transaction, or matches a transaction already in success is             *)
(* acknowledged with a success response (200) and changes no transaction   *)
(* and no balance: a step that takes a webhook is such an acknowledgement, *)
(* or is the step of no signature-valid request with such a reference.     *)
(***************************************************************************)
UnknownOrSettledIsAcknowledged ==
    [][\A p \in Procs :
          WebhookBegins(p)
          => \/ /\ pc'[p] = "done" /\ sess'[p].code = 200
                /\ LedgerUnchanged
             \/ \A event \in Events, reference \in References \cup {NoRef},
                   raw_amount \in PaystackAmounts,
                   paystack_status \in PaystackStatuses :
                   (\/ reference = NoRef
                    \/ FindTransaction(reference) = 0
                    \/ transactions[FindTransaction(reference)].status = SUCCESS)
                       => ~WebhookBegin(p, "valid", event, reference, raw_amount,
                                        paystack_status)]_vars

\* A webhook has been acknowledged while the only deposit is settled and
\* credited once, the other worker having committed that settlement.
UnknownOrSettledIsAcknowledgedWitness ==
    \E p, q \in Procs :
        /\ p # q
        /\ pc[p] = "done" /\ sess[p].op = "webhook" /\ sess[p].code = 200
        /\ pc[q] = "done" /\ sess[q].op = "webhook" /\ sess[q].code = 200
        /\ \E i \in 1..Len(transactions) : transactions[i].status = SUCCESS
        /\ TotalMoney = 100

(***************************************************************************)
(* C15: a settlement for a pending deposit whose gateway status denotes    *)
(* failure marks the transaction failed and leaves every balance           *)
(* unchanged.                                                              *)
(***************************************************************************)
FailedSettlementMarksFailed ==
    [][\A p \in Procs :
          /\ \A reference \in DepRefs, raw_amount \in PaystackAmounts :
                 (/\ WebhookBegin(p, "valid", "charge.success", reference,
                                  raw_amount, "failed")
                  /\ FindTransaction(reference) # 0
                  /\ transactions[FindTransaction(reference)].status = PENDING)
                     => /\ pc'[p] = "webhook_commit"
                        /\ sess'[p].tx = FindTransaction(reference)
                        /\ sess'[p].status = FAILED
                        /\ LedgerUnchanged
          /\ (WebhookCommits(p) /\ sess[p].status = FAILED)
                 => /\ transactions'[sess[p].tx].status = FAILED
                    /\ wallets' = wallets]_vars

\* A failure settlement has committed for a deposit whose initiation is still
\* waiting for the gateway: the transaction is failed, the balance is 0.
FailedSettlementMarksFailedWitness ==
    \E p, q \in Procs :
        /\ pc[p] = "done" /\ sess[p].op = "webhook" /\ sess[p].code = 200
        /\ pc[q] = "deposit_gateway"
        /\ transactions[sess[q].tx].status = FAILED
        /\ wallets[transactions[sess[q].tx].recipient_wallet_id].balance = 0

(***************************************************************************)
(* Requests as the key and permission claims speak of them.                *)
(***************************************************************************)
\* The credentials are a session token the service issued to a user.
ValidSession(credentials) ==
    credentials.present /\ credentials.signed /\ credentials.sub \in users

\* No other worker is serving a request.
Alone(p) == \A q \in Procs \ {p} : pc[q] \in {"idle", "done"}

\* A key is stored for the user in this step.
KeyStored(user) ==
    /\ Len(api_keys') = Len(api_keys) + 1
    /\ api_keys'[Len(api_keys')].user_id = user
    /\ api_keys'[Len(api_keys')].is_active

(***************************************************************************)
(* C16: sequential key cap: when a user already has 5 active, unexpired    *)
(* keys a create request fails with an error and stores no key; once one   *)
(* of them has been revoked (4 are active) the next create request, served *)
(* alone, succeeds and stores a key.                                       *)
(***************************************************************************)
KeyCapSequential ==
    [][\A p \in Procs :
          /\ \A credentials \in Credentials, x_api_key \in ManagementKeys,
                permissions \in PermissionSets, expiry \in ExpiryOptions :
                 (/\ CreateBegin(p, credentials, x_api_key, permissions, expiry)
                  /\ ValidSession(credentials)
                  /\ ActiveKeysCount(credentials.sub) >= MaxActiveKeys)
                     => /\ pc'[p] = "done" /\ sess'[p].code \in {400, 409}
                        /\ api_keys' = api_keys
          /\ (/\ pc[p] = "create_store" /\ pc'[p] # pc[p] /\ Alone(p)
              /\ ActiveKeysCount(sess[p].user) = MaxActiveKeys - 1
              /\ \E i \in 1..Len(api_keys) :
                     api_keys[i].user_id = sess[p].user /\ ~api_keys[i].is_active)
                 => /\ sess'[p].code = 200
                    /\ KeyStored(sess[p].user)]_vars

RolloverOnlyWhenExpired ==
    [][\A p \in Procs, credentials \in Credentials,
          x_api_key \in ManagementKeys, expired_key_id \in KeyIds,
          expiry \in ExpiryOptions :
          (/\ Rollover(p, credentials, x_api_key, expired_key_id, expiry)
           /\ ValidSession(credentials)
           /\ FindKey(expired_key_id, credentials.sub) # 0)
              => IF api_keys[expired_key_id].expires_at > now
                 THEN /\ sess'[p].code \in {400, 409}
                      /\ api_keys' = api_keys
                 ELSE (/\ api_keys[expired_key_id].expires_at < now
                       /\ ActiveKeysCount(credentials.sub) < MaxActiveKeys)
                          => /\ sess'[p].code = 200
                             /\ KeyStored(credentials.sub)]_vars

(***************************************************************************)
(* C19: the permission gate: a request carrying a user's session token     *)
(* passes for every required permission; a request carrying an active,     *)
(* unexpired API key passes exactly when the required permission is in the *)
(* key's granted set and is otherwise refused with an authorization error  *)
(* (403); a refusal changes no transaction and no balance.                 *)
(***************************************************************************)
PermissionGate ==
    [][\A p \in Procs, permission \in Permissions, credentials \in Credentials,
          x_api_key \in KeyStrings \cup {NoKey} :
          RequirePermission(p, permission, credentials, x_api_key)
              => /\ LedgerUnchanged
                 /\ (x_api_key = NoKey /\ ValidSession(credentials))
                        => /\ pc'[p] = "authorized"
                           /\ sess'[p].user = credentials.sub
                 /\ (/\ x_api_key # NoKey
                     /\ FindActiveKey(x_api_key) # 0
                     /\ api_keys[FindActiveKey(x_api_key)].expires_at >= now)
                        => IF permission \in api_keys[FindActiveKey(x_api_key)].permissions
                           THEN /\ pc'[p] = "authorized"
                                /\ sess'[p].user =
                                       api_keys[FindActiveKey(x_api_key)].user_id
                           ELSE /\ pc'[p] = "done"
                                /\ sess'[p].code = 403]_vars

(***************************************************************************)
(* C20: the key management operations (create, list, revoke, rollover) are *)
(* served only for a valid session token: a request without one, also one  *)
(* that presents a valid active API key with every permission, is rejected *)
(* with an authentication error (401), and no key is created or changed.   *)
(***************************************************************************)
KeyManagementNeedsSession ==
    [][\A p \in Procs :
          (pc[p] = "idle" /\ pc'[p] # "idle"
              /\ sess'[p].op \in {"create", "rollover", "revoke", "list"})
          => \A credentials \in Credentials, x_api_key \in ManagementKeys :
                (/\ ~ValidSession(credentials)
                 /\ IF sess'[p].op = "create"
                    THEN \E permissions \in PermissionSets, expiry \in ExpiryOptions :
                             CreateBegin(p, credentials, x_api_key, permissions, expiry)
                    ELSE IF sess'[p].op = "rollover"
                    THEN \E key_id \in KeyIds, expiry \in ExpiryOptions :
                             Rollover(p, credentials, x_api_key, key_id, expiry)
                    ELSE IF sess'[p].op = "revoke"
                    THEN \E key_id \in KeyIds :
                             RevokeBegin(p, credentials, x_api_key, key_id)
                    ELSE ListKeys(p, credentials, x_api_key))
                => /\ pc'[p] = "done" /\ sess'[p].code = 401
                   /\ api_keys' = api_keys]_vars

\* A create request without a session token has been rejected while the
\* key with every permission is active and unexpired.
KeyManagementNeedsSessionWitness ==
    \E p \in Procs :
        /\ pc[p] = "done" /\ sess[p].op = "create" /\ sess[p].code = 401
        /\ sess[p].detail =
               "JWT authentication required. API keys cannot manage other API keys."
        /\ api_keys[2].is_active /\ api_keys[2].expires_at > now
        /\ api_keys[2].permissions = Permissions

(***************************************************************************)
(* C21: a request carrying no credential at all (no bearer token, no API   *)
(* key) is rejected with an authentication failure (401) on every key      *)
(* management operation and every wallet operation (balance, transactions, *)
(* deposit, deposit status, transfer: the routes behind the read, deposit  *)
(* and transfer permissions), and changes no state.                        *)
(***************************************************************************)
\* The step of worker p takes a request without credentials.
TakesAnonymous(p) ==
    \/ \E permission \in Permissions :
           RequirePermission(p, permission, NoCredentials, NoKey)
    \/ \E permissions \in PermissionSets, expiry \in ExpiryOptions :
           CreateBegin(p, NoCredentials, NoKey, permissions, expiry)
    \/ \E expired_key_id \in KeyIds, expiry \in ExpiryOptions :
           Rollover(p, NoCredentials, NoKey, expired_key_id, expiry)
    \/ \E key_id \in KeyIds : RevokeBegin(p, NoCredentials, NoKey, key_id)
    \/ ListKeys(p, NoCredentials, NoKey)

NoCredentialIsRejected ==
    [][\A p \in Procs :
          (pc[p] = "idle" /\ pc'[p] # "idle" /\ TakesAnonymous(p))
              => /\ pc'[p] = "done" /\ sess'[p].code = 401
                 /\ UNCHANGED <<users, wallets, transactions, api_keys>>]_vars

\* A wallet request and a key management request without credentials have
\* both been rejected, the store holding a deposit and a revoked key.
NoCredentialIsRejectedWitness ==
    \E p, q \in Procs :
        /\ pc[p] = "done" /\ sess[p].op \in Permissions /\ sess[p].code = 401
        /\ sess[p].detail = "Authentication required"
        /\ pc[q] = "done" /\ sess[q].op \in {"create", "rollover", "revoke", "list"}
        /\ sess[q].code = 401
        /\ sess[q].detail =
               "JWT authentication required. API keys cannot manage other API keys."
        /\ Len(transactions) > 0
        /\ \E i \in 1..Len(api_keys) : ~api_keys[i].is_active

(***************************************************************************)
(* C22: revocation is immediate and irreversible: the commit of a revoke   *)
(* request makes the key's active flag false, a key whose flag is false    *)
(* keeps it false in every later step (no operation, rollover and create   *)
(* included, sets it back or removes the row), and every later wallet      *)
(* request that presents the revoked key's secret fails: it is answered    *)
(* with an error, is served as no user and changes nothing.                *)
(***************************************************************************)
\* The secret is that of a stored key and no active row holds it.
Revoked(x_api_key) ==
    /\ \E i \in 1..Len(api_keys) : api_keys[i].key = x_api_key
    /\ \A i \in 1..Len(api_keys) :
           api_keys[i].key = x_api_key => ~api_keys[i].is_active

RevocationIsFinal ==
    [][/\ \A p \in Procs :
             (pc[p] = "revoke_commit" /\ pc'[p] # pc[p])
                 => ~api_keys'[sess[p].key_id].is_active
       /\ \A i \in 1..Len(api_keys) :
             ~api_keys[i].is_active
                 => /\ i <= Len(api_keys')
                    /\ ~api_keys'[i].is_active
                    /\ api_keys'[i].key = api_keys[i].key
       /\ \A p \in Procs, permission \in Permissions,
             credentials \in AnonymousOrSession, x_api_key \in WalletKeys :
             (/\ x_api_key # NoKey /\ Revoked(x_api_key)
              /\ RequirePermission(p, permission, credentials, x_api_key))
                 => /\ pc'[p] = "done" /\ sess'[p].code \in {401, 500}
                    /\ sess'[p].user = "none"
                    /\ UNCHANGED <<users, wallets, transactions, api_keys>>]_vars

\* The first key of a@x.io is revoked, the revoke request is answered, and a
\* wallet request presenting a key has been refused.
RevocationIsFinalWitness ==
    \E p, q \in Procs :
        /\ ~api_keys[1].is_active /\ Revoked("sk_live_1")
        /\ pc[q] = "done" /\ sess[q].op = "revoke" /\ sess[q].code = 200
        /\ pc[p] = "done" /\ sess[p].op \in Permissions /\ sess[p].code = 500

(***************************************************************************)
(* C23: all monetary values are integers: in every reachable state every   *)
(* wallet balance and every transaction amount is a whole number of the    *)
(* unit it is stored in, also after a settlement whose confirmed amount is *)
(* not a multiple of 100.                                                  *)
(***************************************************************************)
MoneyIsIntegral ==
    /\ \A w \in DOMAIN wallets : IsIntegral(wallets[w].balance)
    /\ \A i \in 1..Len(transactions) : IsIntegral(transactions[i].amount)

(***************************************************************************)
(* C24: in every reachable state no two transactions share a reference:    *)
(* the reference a deposit or a transfer generates is checked against the  *)
(* stored transactions before its record is written, also when two         *)
(* requests generate the same reference concurrently.                      *)
(***************************************************************************)
ReferencesUnique ==
    \A i, j \in 1..Len(transactions) :
        transactions[i].reference = transactions[j].reference => i = j

\* A deposit and a transfer have each drawn a reference that was stored by
\* the time they committed, and both have been refused.
ReferencesUniqueWitness ==
    \E p, q \in Procs :
        /\ pc[p] = "done" /\ sess[p].op = "deposit" /\ sess[p].code = 500
        /\ pc[q] = "done" /\ sess[q].op = "transfer" /\ sess[q].code = 500
        /\ \E i \in 1..Len(transactions) : transactions[i].type = DEPOSIT
        /\ \E i \in 1..Len(transactions) : transactions[i].type = TRANSFER

(***************************************************************************)
(* C25: authentication failures are indistinguishable to the caller: a     *)
(* wallet request refused for a malformed, invalid or expired token, for   *)
(* an unknown or an expired API key, or for a credential whose user does   *)
(* not exist is answered with the status (401) and the message that every  *)
(* other such request would receive.                                       *)
(***************************************************************************)
\* The request presents a credential that does not authenticate.
BadCredential(credentials, x_api_key) ==
    IF x_api_key # NoKey
    THEN \/ FindActiveKey(x_api_key) = 0
         \/ api_keys[FindActiveKey(x_api_key)].expires_at < now
         \/ api_keys[FindActiveKey(x_api_key)].user_id \notin users
    ELSE /\ credentials.present
         /\ ~credentials.signed \/ credentials.sub \notin users

AuthFailuresIndistinguishable ==
    [][\A p \in Procs, permission \in Permissions, credentials \in Credentials,
          x_api_key \in KeyStrings \cup {NoKey} :
          (/\ BadCredential(credentials, x_api_key)
           /\ RequirePermission(p, permission, credentials, x_api_key))
              => /\ pc'[p] = "done" /\ sess'[p].code = 401
                 /\ \A other \in Credentials, other_key \in KeyStrings \cup {NoKey} :
                        BadCredential(other, other_key)
                            => /\ GetCurrentUser(other, other_key).code = sess'[p].code
                               /\ GetCurrentUser(other, other_key).detail
                                      = sess'[p].detail]_vars

(***************************************************************************)
(* C26: the plaintext secret is returned only by the create or rollover    *)
(* request that issues it; the stored record holds the lookup prefix and a *)
(* one-way hash, and a later list request of the owner is answered (200)   *)
(* with the prefix of each key followed by a fixed marker, read from the   *)
(* stored prefix.                                                          *)
(***************************************************************************)
ListShowsOnlyPrefix ==
    [][\A p \in Procs, credentials \in Credentials, x_api_key \in ManagementKeys :
          (ValidSession(credentials) /\ ListKeys(p, credentials, x_api_key))
              => /\ HasAttr("APIKey", "key_prefix") /\ HasAttr("APIKey", "key_hash")
                 /\ pc'[p] = "done" /\ sess'[p].code = 200
                 /\ api_keys' = api_keys]_vars

(***************************************************************************)
(* C27: in every reachable state each user owns exactly one wallet: the    *)
(* first authentication of an unknown email stores the user and its wallet *)
(* (balance 0) in one step, never a user without a wallet, and an          *)
(* authentication of a stored email, also the later of two concurrent      *)
(* first logins, stores no user and no wallet.                             *)
(***************************************************************************)
\* Every user owns a wallet, every wallet has its owner, and no two wallets
\* share a number (wallets is keyed by the unique wallets.user_id).
EachUserOwnsOneWallet ==
    /\ DOMAIN wallets = users
    /\ \A u, v \in DOMAIN wallets :
           wallets[u].wallet_number = wallets[v].wallet_number => u = v

OneWalletPerUser ==
    /\ []EachUserOwnsOneWallet
    /\ [][\A p \in Procs :
             /\ (pc[p] = "idle" /\ pc'[p] # pc[p]) => UNCHANGED <<users, wallets>>
             /\ (pc[p] = "login_commit" /\ pc'[p] # pc[p])
                    => IF sess[p].user \in users
                       THEN /\ UNCHANGED <<users, wallets>>
                            /\ sess'[p].code # 200
                       ELSE \/ UNCHANGED <<users, wallets>> /\ sess'[p].code # 200
                            \/ /\ users' = users \cup {sess[p].user}
                               /\ DOMAIN wallets' = users'
                               /\ wallets'[sess[p].user].balance = 0
                               /\ \A w \in DOMAIN wallets : wallets'[w] = wallets[w]
                               /\ sess'[p].code = 200]_vars

\* Two first logins of one email ran concurrently: one stored the user and
\* its wallet, the other failed on the unique email.
OneWalletPerUserWitness ==
    \E p, q \in Procs :
        /\ pc[p] = "done" /\ sess[p].op \in LoginRoutes /\ sess[p].code = 200
        /\ pc[q] = "done" /\ sess[q].op \in LoginRoutes
        /\ sess[q].detail = "UNIQUE constraint failed: users.email"
        /\ Cardinality(users) = Cardinality(Emails) + 1
        /\ DOMAIN wallets = users

(***************************************************************************)
(* C28: ListTransactions and GetBalance are pure reads: a step of a read   *)
(* request changes no user, wallet, transaction or key, and the listing    *)
(* that is returned holds exactly the transactions in which the caller's   *)
(* wallet is sender or recipient (deposits, sent and received transfers),  *)
(* each once and with its stored fields, ordered newest-first by creation  *)
(* time.                                                                   *)
(***************************************************************************)
\* Worker p answers a read request in this step.
ReadAnswers(p) == pc[p] = "authorized" /\ sess[p].op = "read" /\ pc'[p] # pc[p]

ReadsArePure ==
    [][\A p \in Procs :
          ReadAnswers(p)
              => /\ UNCHANGED <<users, wallets, transactions, api_keys>>
                 /\ sess'[p].op = "transactions"
                        => LET body == sess'[p].body
                               caller == sess[p].user IN
                           /\ sess'[p].code = 200
                           /\ {body[k].id : k \in 1..Len(body)} =
                                  {i \in 1..Len(transactions) :
                                      \/ transactions[i].sender_wallet_id = caller
                                      \/ transactions[i].recipient_wallet_id = caller}
                           /\ \A k, l \in 1..Len(body) :
                                  k < l => /\ body[k].id # body[l].id
                                           /\ body[k].created_at >= body[l].created_at
                           /\ \A k \in 1..Len(body) :
                                  LET t == transactions[body[k].id] IN
                                  /\ body[k].reference = t.reference
                                  /\ body[k].type = t.type
                                  /\ body[k].status = t.status
                                  /\ FloatOfInt(body[k].amount) = t.amount
                                  /\ body[k].created_at = CreatedAt(body[k].id)]_vars

\* A listing of three transactions has been returned to a@x.io: the transfer
\* received last, the transfer sent before it, and the deposit first made.
ReadsArePureWitness ==
    \E p \in Procs :
        /\ pc[p] = "done" /\ sess[p].op = "transactions" /\ sess[p].code = 200
        /\ Len(sess[p].body) = 3
        /\ sess[p].body[3].type = DEPOSIT
        /\ transactions[sess[p].body[2].id].sender_wallet_id = "a@x.io"
        /\ transactions[sess[p].body[1].id].recipient_wallet_id = "a@x.io"
        /\ transactions[sess[p].body[1].id].type = TRANSFER

(***************************************************************************)
(* C29: when the mutation phase of a transfer fails, the whole unit is     *)
(* rolled back (neither debit nor credit applied) and the store afterwards *)
(* holds that transfer's transaction record with status failed: a transfer *)
(* that reached the mutation phase always leaves an audit record.          *)
(***************************************************************************)
FailedTransferIsRecorded ==
    [][\A p \in Procs :
          (TransferCommits(p) /\ sess'[p].code # 200)
              => /\ wallets' = wallets
                 /\ \E i \in 1..Len(transactions') :
                        /\ transactions'[i].type = TRANSFER
                        /\ transactions'[i].status = FAILED
                        /\ transactions'[i].sender_wallet_id = sess[p].user
                        /\ transactions'[i].recipient_wallet_id = sess[p].recipient
                        /\ transactions'[i].amount = FloatOfInt(sess[p].amount)]_vars

(***************************************************************************)
(* C30: non-positive amounts are rejected: a deposit or transfer request   *)
(* with amount <= 0 is refused, creates no transaction and changes no      *)
(* balance, so every stored transaction has amount > 0 and a transfer that *)
(* commits never raises its sender's balance.                              *)
(***************************************************************************)
NonPositiveAmountsRejected ==
    /\ [](\A i \in 1..Len(transactions) : transactions[i].amount > 0)
    /\ [][\A p \in Procs :
             /\ \A user \in Emails, amount \in RequestAmounts :
                    (/\ amount <= 0
                     /\ \/ \E reference \in DepRefs :
                               DepositBegin(p, user, amount, reference)
                        \/ \E wallet_number \in WalletNumbers :
                               TransferBegin(p, user, wallet_number, amount))
                        => /\ pc'[p] = "done" /\ sess'[p].code = 422
                           /\ LedgerUnchanged
             /\ TransferCommits(p)
                    => wallets'[sess[p].user].balance <= wallets[sess[p].user].balance]_vars

(***************************************************************************)
(* C31: in every reachable state each deposit transaction has no sender    *)
(* wallet and a recipient wallet set, and each transfer transaction has    *)
(* both sender and recipient set, to two different wallets.                *)
(***************************************************************************)
TransactionParties ==
    \A i \in 1..Len(transactions) :
        IF transactions[i].type = DEPOSIT
        THEN /\ transactions[i].sender_wallet_id = NoWallet
             /\ transactions[i].recipient_wallet_id \in DOMAIN wallets
        ELSE /\ transactions[i].type = TRANSFER
             /\ transactions[i].sender_wallet_id \in DOMAIN wallets
             /\ transactions[i].recipient_wallet_id \in DOMAIN wallets
             /\ transactions[i].sender_wallet_id # transactions[i].recipient_wallet_id

\* The store holds a deposit and a transfer, and a transfer to the sender's
\* own wallet number has reached the self-transfer test and been refused.
TransactionPartiesWitness ==
    /\ \E i \in 1..Len(transactions) : transactions[i].type = DEPOSIT
    /\ \E i \in 1..Len(transactions) :
           /\ transactions[i].type = TRANSFER
           /\ transactions[i].sender_wallet_id = "a@x.io"
           /\ transactions[i].recipient_wallet_id = "b@x.io"
    /\ \E p \in Procs :
           /\ pc[p] = "done" /\ sess[p].op = "transfer" /\ sess[p].code = 400
           /\ sess[p].detail = SelfTransferDetail

(***************************************************************************)
(* C32: the transaction store is append-only: no step removes a            *)
(* transaction, and no step changes the reference, type, amount, sender    *)
(* wallet or recipient wallet of a stored transaction; only its status is  *)
(* written after creation.                                                 *)
(***************************************************************************)
TransactionsAppendOnly ==
    [][/\ Len(transactions') >= Len(transactions)
       /\ \A i \in 1..Len(transactions) :
             /\ transactions'[i].reference = transactions[i].reference
             /\ transactions'[i].type = transactions[i].type
             /\ transactions'[i].amount = transactions[i].amount
             /\ transactions'[i].sender_wallet_id = transactions[i].sender_wallet_id
             /\ transactions'[i].recipient_wallet_id
                    = transactions[i].recipient_wallet_id]_vars

\* A deposit recorded with amount 1 has been settled by a payload of 150:
\* its status is success, its recorded amount is still 1, the wallet was
\* credited 1.5, and a transfer has been appended after it.
TransactionsAppendOnlyWitness ==
    /\ Len(transactions) >= 2
    /\ transactions[1].type = DEPOSIT /\ transactions[1].status = SUCCESS
    /\ transactions[1].amount = FloatOfInt(1)
    /\ transactions[2].type = TRANSFER
    /\ TotalMoney = WebhookAmount(150)

(***************************************************************************)
(* C33: credential resolution by API key succeeds exactly when a stored    *)
(* key matches the presented secret, is active, is not expired and its     *)
(* owner exists; the request is then served as that key's owner with       *)
(* exactly that key's permissions (refused 403 when the permission asked   *)
(* for is not among them), and it is refused 401 otherwise.                *)
(***************************************************************************)
KeyResolves(x_api_key) ==
    \E i \in 1..Len(api_keys) :
        /\ api_keys[i].key = x_api_key
        /\ api_keys[i].is_active
        /\ ~(api_keys[i].expires_at < now)
        /\ api_keys[i].user_id \in users

ApiKeyResolution ==
    [][\A p \in Procs, permission \in Permissions, credentials \in Credentials,
          x_api_key \in KeyStrings :
           RequirePermission(p, permission, credentials, x_api_key) =>
               IF KeyResolves(x_api_key)
               THEN LET k == FindActiveKey(x_api_key) IN
                    IF permission \in api_keys[k].permissions
                    THEN /\ pc'[p] = "authorized"
                         /\ sess'[p].user = api_keys[k].user_id
                    ELSE sess'[p].code = 403
               ELSE sess'[p].code = 401]_vars

(***************************************************************************)
(* C34: in every reachable state every stored key's permission set is a    *)
(* subset of {deposit, transfer, read}; a create request that names any    *)
(* other permission is rejected (unauthenticated, or as invalid input) and *)
(* stores no key; a rollover that stores a key gives it the old key's      *)
(* permissions.                                                            *)
(***************************************************************************)
StoredPermissionsValid ==
    \A i \in 1..Len(api_keys) : api_keys[i].permissions \subseteq Permissions

SuccessfulRollover ==
    [][\A p \in Procs, expired_key_id \in KeyIds, expiry \in ExpiryOptions :
          (/\ pc[p] = "idle" /\ pc'[p] # "idle"
           /\ FindKey(expired_key_id, "a@x.io") # 0
           /\ api_keys[expired_key_id].expires_at < now
           /\ ActiveKeysCount("a@x.io") < MaxActiveKeys
           /\ Rollover(p, Bearer(TRUE, "a@x.io"), NoKey, expired_key_id, expiry))
              => /\ sess'[p].code = 200
                 /\ Len(api_keys') = Len(api_keys) + 1
                 /\ SubSeq(api_keys', 1, Len(api_keys)) = api_keys
                 /\ LET new == api_keys'[Len(api_keys')] IN
                      /\ new.user_id = "a@x.io"
                      /\ new.permissions = api_keys[expired_key_id].permissions
                      /\ new.expires_at = ParseExpiry(expiry)
                      /\ new.is_active
                      /\ \A i \in 1..Len(api_keys) : api_keys[i].key # new.key]_vars

(***************************************************************************)
(* C36: key ownership isolation: a revoke or rollover request that names a *)
(* key id that does not exist or belongs to another user is answered 404   *)
(* and changes no key; a revocation changes only the active flag of the    *)
(* one key it names, a key of the caller; every key a list response        *)
(* carries belongs to the caller.                                          *)
(***************************************************************************)
OwnKey(key_id, user) ==
    key_id \in 1..Len(api_keys) /\ api_keys[key_id].user_id = user

RECURSIVE RecordedBalance(_, _)
RecordedBalance(w, n) ==
    IF n = 0 THEN 0
    ELSE LET t == transactions[n] IN
         RecordedBalance(w, n - 1)
           + (IF t.status = SUCCESS /\ t.recipient_wallet_id = w THEN t.amount ELSE 0)
           - (IF t.status = SUCCESS /\ t.type = TRANSFER /\ t.sender_wallet_id = w
              THEN t.amount ELSE 0)

LedgerConsistent ==
    \A w \in DOMAIN wallets :
        wallets[w].balance = RecordedBalance(w, Len(transactions))

(***************************************************************************)
(* C38: debit authority: a step lowers a wallet's balance only when it is  *)
(* the commit of a transfer request authenticated as that wallet's owner;  *)
(* no webhook and no request of another user ever lowers it.               *)
(***************************************************************************)
DebitAuthority ==
    [][\A w \in DOMAIN wallets :
          wallets'[w].balance < wallets[w].balance
              => \E p \in Procs :
                     /\ pc[p] = "transfer_commit" /\ pc'[p] = "done"
                     /\ sess[p].user = w]_vars

(***************************************************************************)
(* C39: credential precedence: when a wallet request carries an API key    *)
(* header, the key alone decides the outcome, whatever bearer token comes  *)
(* with it: the response is the one the same request gets without a        *)
(* bearer token; the request is served only as the owner of a matching,    *)
(* active, unexpired key that holds the permission (never with full        *)
(* access); and it fails when the key is invalid, revoked or expired even  *)
(* if the bearer token is valid.                                           *)
(***************************************************************************)
CredentialPrecedence ==
    [][\A p \in Procs, permission \in Permissions, x_api_key \in KeyStrings :
          (/\ pc[p] = "idle" /\ pc'[p] # "idle" /\ sess'[p].op = permission)
              => \A credentials \in Credentials :
                     RequirePermission(p, permission, credentials, x_api_key)
                         => /\ RequirePermission(p, permission, NoCredentials, x_api_key)
                            /\ pc'[p] = "authorized"
                                   => \E i \in 1..Len(api_keys) :
                                          /\ api_keys[i].key = x_api_key
                                          /\ api_keys[i].is_active
                                          /\ ~(api_keys[i].expires_at < now)
                                          /\ permission \in api_keys[i].permissions
                                          /\ sess'[p].user = api_keys[i].user_id
                            /\ ~KeyResolves(x_api_key)
                                   => pc'[p] = "done" /\ sess'[p].code >= 400]_vars

\* A wallet request carrying a key has been refused after a@x.io revoked its
\* first key and the clock passed the expiry of its fifth.
CredentialPrecedenceWitness ==
    /\ ~api_keys[1].is_active
    /\ api_keys[5].expires_at < now
    /\ \E p \in Procs :
           /\ pc[p] = "done" /\ sess[p].op \in Permissions
           /\ sess[p].code = 500

(***************************************************************************)
(* C40: deposit amount round trip: for a deposit initiated with the        *)
(* integer amount X the gateway is asked to charge 100 * X and X is the    *)
(* amount recorded; a success webhook credits the amount of its payload    *)
(* divided by 100, so an undisturbed settlement raises the balance by the  *)
(* recorded amount exactly when the payload amount is 100 times the        *)
(* recorded amount (the amount charged).                                   *)
(***************************************************************************)
ChargeIsHundredfold ==
    \A p \in Procs :
        pc[p] = "deposit_gateway"
            => /\ sess[p].charge = 100 * sess[p].amount
               /\ transactions[sess[p].tx].amount = FloatOfInt(sess[p].amount)

====
